---- MODULE Spec2Model ----
(***************************************************************************)
(* Model of analysis/resampling.py: the process-parallel shuffle() that    *)
(* builds a null-distribution table, the two-sided empirical p-value, the  *)
(* event-count gate and the two neuron classification strategies.          *)
(*                                                                         *)
(* Real-valued quantities are kept exact: a p-value is the pair            *)
(* <<count, rows>> and percentiles are carried scaled by 100, so every     *)
(* comparison is a comparison of integers.                                 *)
(***************************************************************************)
EXTENDS Integers, Sequences, FiniteSets, TLC

\* ------------------------------------------------------------- bounds
MaxR == 4          \* largest requested resample count (total_experiments)
MaxW == 2          \* largest os.cpu_count()
NumRows == 3       \* timepoints (rows) of the combined table given to shuffle()
RngMod == 5        \* number of states of the abstract pseudorandom generator
MaxNullRows == 2   \* most rows of the null table given to a classifier

\* ------------------------------------------------------------- inputs
Neurons == <<"A", "B">>
NeuronSet == {Neurons[k] : k \in 1..Len(Neurons)}
NullVals == {-1, 0, 1}
ActivityColumns == {<<0, 0>>, <<0, 1>>, <<1, 1>>}
Thresholds == {2}
Alphas == {<<1, 20>>, <<1, 2>>}            \* p_value as <<numerator, denominator>>
Tails == {<<75, 25>>, <<25, 75>>}           \* <<high_tail, low_tail>>
behavior_name == "Running"

VARIABLES
    \* ---- shuffle()
    total_experiments,  \* R, the argument of shuffle()
    cpu_count,          \* W, the value of os.cpu_count()
    start_method,       \* how multiprocessing creates a child: "fork" or "spawn"
    parent_rng,         \* state of the parent's global numpy generator
    orch,               \* position of the orchestrator inside shuffle()
    nstarted,           \* len(processes)
    workers,            \* worker number -> the child process's private state
    q,                  \* the multiprocessing Queue, oldest first
    rets,               \* the list rets
    njoined,            \* how many p.join() calls have returned
    returned,           \* the table shuffle() returned, <<>> until then
    \* ---- classify_neurons_*()
    strategy,           \* "idle", "nonparametric" or "parametric"
    dataframe,          \* neuron -> its column of the activity table
    resampled_df,       \* neuron -> its column of the null table
    real_diff_df,       \* neuron -> the observed statistic
    p_value,            \* alpha as <<numerator, denominator>>
    tails,              \* <<high_tail, low_tail>>
    threshold,
    cpc,                \* position inside the classifier
    gi,                 \* columns the gate loop has visited
    si,                 \* columns the statistics loop has visited
    classified_neurons, \* the dict being built
    pvals,              \* value compute_two_side_p_val returned, per neuron
    evaluated,          \* neurons whose statistic has been evaluated
    error               \* the exception that left the classifier, or "none"

shuffleVars == <<total_experiments, cpu_count, start_method, parent_rng, orch,
                 nstarted, workers, q, rets, njoined, returned>>
classifyVars == <<strategy, dataframe, resampled_df, real_diff_df, p_value, tails,
                  threshold, cpc, gi, si, classified_neurons, pvals, evaluated, error>>
vars == <<shuffleVars, classifyVars>>

\* ------------------------------------------------------------- helpers
Abs(x) == IF x < 0 THEN -x ELSE x

RECURSIVE SumSeq(_)
SumSeq(s) == IF s = <<>> THEN 0 ELSE Head(s) + SumSeq(Tail(s))

RECURSIVE Flatten(_)
Flatten(ss) == IF ss = <<>> THEN <<>> ELSE Head(ss) \o Flatten(Tail(ss))

Swap(s, i, j) == [s EXCEPT ![i] = s[j], ![j] = s[i]]

\* ------------------------------------------------------------- the random source
\* numpy's global generator: a deterministic function of its state.
NextRng(s) == (3 * s + 1) % RngMod

\* DataFrame.sample(frac=1): a Fisher-Yates pass driven by the generator.
\* Returns the permuted sequence and the generator state left behind.
RECURSIVE Sample(_, _, _)
Sample(s, i, rng) ==
    IF i <= 1 THEN [df |-> s, rng |-> rng]
    ELSE Sample(Swap(s, i, (rng % i) + 1), i - 1, NextRng(rng))

\* ------------------------------------------------------------- the tables of shuffle()
\* The activity block holds one row identifier per timepoint; a row identifier
\* stands for that timepoint's signal values of all neurons.
OriginalActivity == [r \in 1..NumRows |-> r]
OriginalBehavior == [r \in 1..NumRows |-> IF r % 2 = 1 THEN "behavior1" ELSE "behavior2"]
OriginalTable == [activity |-> OriginalActivity, behavior |-> OriginalBehavior]

Signal(neuron, r) == IF neuron = "A" THEN r ELSE r * r

\* au.compute_diff_rate: per neuron, the difference between its mean signal
\* under behavior1 and under behavior2 (scaled by both row counts).
compute_diff_rate(table) ==
    LET rows(b) == {r \in 1..NumRows : table.behavior[r] = b}
        total(neuron, b) ==
            SumSeq([r \in 1..NumRows |->
                      IF table.behavior[r] = b THEN Signal(neuron, table.activity[r]) ELSE 0])
    IN [neuron \in NeuronSet |->
          total(neuron, "behavior1") * Cardinality(rows("behavior2"))
          - total(neuron, "behavior2") * Cardinality(rows("behavior1"))]

\* ------------------------------------------------------------- shuffle()
ExperimentsPerWorkerCeil == (total_experiments + cpu_count - 1) \div cpu_count
experiments_per_worker == total_experiments \div cpu_count

CollectCountShort == nstarted - 1
CollectCount == nstarted

NotStarted == [pc |-> "none", index |-> 0, rng |-> 0, seed0 |-> 0,
               table |-> OriginalTable, shuffled_df |-> <<>>]

SeedsInUse == {parent_rng} \cup {workers[i].seed0 : i \in 1..nstarted}

\* The generator state a new child starts from: a forked child holds a copy of
\* the parent's memory, a spawned one imports numpy afresh and is seeded from
\* operating-system entropy.  shuffle_worker never seeds the generator itself.
ChildSeeds ==
    IF start_method = "fork" THEN {parent_rng}
    ELSE (0..(RngMod - 1)) \ SeedsInUse

ShuffleInit ==
    /\ total_experiments \in 1..MaxR
    /\ cpu_count \in 1..MaxW
    /\ start_method \in {"fork", "spawn"}
    /\ parent_rng \in 0..(RngMod - 1)
    /\ orch = "start"
    /\ nstarted = 0
    /\ workers = [i \in 1..cpu_count |-> NotStarted]
    /\ q = <<>>
    /\ rets = <<>>
    /\ njoined = 0
    /\ returned = <<>>

\* lines 61-64: p = Process(...); processes.append(p); p.start()
StartProcess ==
    /\ orch = "start"
    /\ nstarted < cpu_count
    /\ \E seed \in ChildSeeds :
         workers' = [workers EXCEPT ![nstarted + 1] =
                       [pc |-> "loop", index |-> 0, rng |-> seed, seed0 |-> seed,
                        table |-> OriginalTable, shuffled_df |-> <<>>]]
    /\ nstarted' = nstarted + 1
    /\ UNCHANGED <<total_experiments, cpu_count, start_method, parent_rng, orch,
                   q, rets, njoined, returned>>

\* line 61 falls through to line 65 once range(os.cpu_count()) is exhausted
EndStart ==
    /\ orch = "start"
    /\ nstarted = cpu_count
    /\ orch' = "collect"
    /\ UNCHANGED <<total_experiments, cpu_count, start_method, parent_rng,
                   nstarted, workers, q, rets, njoined, returned>>

\* lines 96-97: one resample of worker i
WorkerIterate(i) ==
    /\ workers[i].pc = "loop"
    /\ workers[i].index < experiments_per_worker
    /\ LET w == workers[i]
           s == Sample(w.table.activity, NumRows, w.rng)
           t == [w.table EXCEPT !.activity = s.df]
       IN workers' = [workers EXCEPT ![i] =
                        [w EXCEPT !.table = t,
                                  !.rng = s.rng,
                                  !.shuffled_df = Append(w.shuffled_df, compute_diff_rate(t)),
                                  !.index = w.index + 1]]
    /\ UNCHANGED <<total_experiments, cpu_count, start_method, parent_rng, orch,
                   nstarted, q, rets, njoined, returned>>

\* line 99: q.put(shuffled_df)
WorkerPut(i) ==
    /\ workers[i].pc = "loop"
    /\ workers[i].index >= experiments_per_worker
    /\ q' = Append(q, workers[i].shuffled_df)
    /\ workers' = [workers EXCEPT ![i].pc = "put"]
    /\ UNCHANGED <<total_experiments, cpu_count, start_method, parent_rng, orch,
                   nstarted, rets, njoined, returned>>

\* shuffle_worker returns and the child process ends
WorkerExit(i) ==
    /\ workers[i].pc = "put"
    /\ workers' = [workers EXCEPT ![i].pc = "exited"]
    /\ UNCHANGED <<total_experiments, cpu_count, start_method, parent_rng, orch,
                   nstarted, q, rets, njoined, returned>>

\* lines 65-67: ret = q.get(); rets.append(ret)
Get ==
    /\ orch = "collect"
    /\ Len(rets) < CollectCount
    /\ q # <<>>
    /\ rets' = Append(rets, Head(q))
    /\ q' = Tail(q)
    /\ UNCHANGED <<total_experiments, cpu_count, start_method, parent_rng, orch,
                   nstarted, workers, njoined, returned>>

\* line 65 falls through to line 68 once processes is exhausted
EndCollect ==
    /\ orch = "collect"
    /\ Len(rets) >= CollectCount
    /\ orch' = "join"
    /\ UNCHANGED <<total_experiments, cpu_count, start_method, parent_rng,
                   nstarted, workers, q, rets, njoined, returned>>

\* lines 68-69: p.join() returns once that child has ended
Join ==
    /\ orch = "join"
    /\ njoined < nstarted
    /\ workers[njoined + 1].pc = "exited"
    /\ njoined' = njoined + 1
    /\ UNCHANGED <<total_experiments, cpu_count, start_method, parent_rng, orch,
                   nstarted, workers, q, rets, returned>>

\* line 71: return pd.concat(rets, ignore_index=True)
Return ==
    /\ orch = "join"
    /\ njoined = nstarted
    /\ returned' = Flatten(rets)
    /\ orch' = "done"
    /\ UNCHANGED <<total_experiments, cpu_count, start_method, parent_rng,
                   nstarted, workers, q, rets, njoined>>

ClassifyIdle ==
    /\ strategy = "idle"
    /\ dataframe = <<>>
    /\ resampled_df = <<>>
    /\ real_diff_df = <<>>
    /\ p_value = <<1, 20>>
    /\ tails = <<100, 0>>
    /\ threshold = 0
    /\ cpc = "idle"
    /\ gi = 0
    /\ si = 0
    /\ classified_neurons = <<>>
    /\ pvals = <<>>
    /\ evaluated = {}
    /\ error = "none"

ShuffleNext ==
    \/ StartProcess /\ UNCHANGED classifyVars
    \/ EndStart /\ UNCHANGED classifyVars
    \/ \E i \in 1..cpu_count : WorkerIterate(i) /\ UNCHANGED classifyVars
    \/ \E i \in 1..cpu_count : WorkerPut(i) /\ UNCHANGED classifyVars
    \/ \E i \in 1..cpu_count : WorkerExit(i) /\ UNCHANGED classifyVars
    \/ Get /\ UNCHANGED classifyVars
    \/ EndCollect /\ UNCHANGED classifyVars
    \/ Join /\ UNCHANGED classifyVars
    \/ Return /\ UNCHANGED classifyVars

\* shuffle() is called; no classifier runs
ShuffleStart == ShuffleInit /\ ClassifyIdle

ShuffleSpec == ShuffleStart /\ [][ShuffleNext]_vars

ShuffleIdle ==
    /\ total_experiments = 1
    /\ cpu_count = 1
    /\ start_method = "fork"
    /\ parent_rng = 0
    /\ orch = "idle"
    /\ nstarted = 0
    /\ workers = <<>>
    /\ q = <<>>
    /\ rets = <<>>
    /\ njoined = 0
    /\ returned = <<>>

\* ------------------------------------------------------------- the statistics
\* A p-value <<count, rows>> stands for count / rows.
LeqRat(a, b) == a[1] * b[2] <= b[1] * a[2]
LessRat(a, b) == a[1] * b[2] < b[1] * a[2]

RECURSIVE Insert(_, _)
Insert(x, s) ==
    IF s = <<>> THEN <<x>>
    ELSE IF x <= Head(s) THEN <<x>> \o s
    ELSE <<Head(s)>> \o Insert(x, Tail(s))

RECURSIVE Sort(_)
Sort(s) == IF s = <<>> THEN <<>> ELSE Insert(Head(s), Sort(Tail(s)))

\* np.percentile(col, pct), linear interpolation, times 100.  col is not empty.
Percentile100(col, pct) ==
    LET n == Len(col)
        sorted == Sort(col)
        pos100 == pct * (n - 1)
        lo == pos100 \div 100
        hi == IF lo + 1 > n - 1 THEN n - 1 ELSE lo + 1
    IN 100 * sorted[lo + 1] + (sorted[hi + 1] - sorted[lo + 1]) * (pos100 - 100 * lo)

compute_two_side_p_val_strict(rdf, obs, neuron) ==
    LET rows == Len(rdf[neuron])
    IN IF rows = 0 THEN [err |-> "ZeroDivisionError", val |-> <<0, 1>>]
       ELSE [err |-> "none",
             val |-> <<Len(SelectSeq(rdf[neuron], LAMBDA v : Abs(v) > Abs(obs[neuron]))), rows>>]

compute_two_side_p_val_default(rdf, obs, neuron) ==
    LET rows == Len(rdf[neuron])
    IN IF rows = 0 THEN [err |-> "none", val |-> <<0, 1>>]
       ELSE [err |-> "none",
             val |-> <<Len(SelectSeq(rdf[neuron], LAMBDA v : Abs(v) >= Abs(obs[neuron]))), rows>>]

\* line 23: (1 / len(resampled_df.index)) * len(rows with |v| >= |observed|);
\* the division is evaluated first and raises on an empty table.
compute_two_side_p_val(rdf, obs, neuron) ==
    LET rows == Len(rdf[neuron])
    IN IF rows = 0 THEN [err |-> "ZeroDivisionError", val |-> <<0, 1>>]
       ELSE [err |-> "none",
             val |-> <<Len(SelectSeq(rdf[neuron], LAMBDA v : Abs(v) >= Abs(obs[neuron]))), rows>>]

\* line 38
get_num_of_events(df, neuron) == Len(SelectSeq(df[neuron], LAMBDA v : v # 0))

BelowOrAtThreshold(df, neuron, thr) == get_num_of_events(df, neuron) <= thr
\* lines 123 and 189: get_num_of_events(dataframe, neuron) < threshold
BelowThreshold(df, neuron, thr) == get_num_of_events(df, neuron) < thr

NonParametricLabelStrict(p, alpha) ==
    IF LessRat(p, alpha) THEN "selective" ELSE "not-selective"
\* lines 128-133
NonParametricLabel(p, alpha) ==
    IF LeqRat(p, alpha) THEN "selective" ELSE "not-selective"

two_tailed_low_first(rdf, obs, neuron, name, high_tail, low_tail) ==
    IF 100 * obs[neuron] <= Percentile100(rdf[neuron], low_tail) THEN "Non-" \o name
    ELSE IF 100 * obs[neuron] >= Percentile100(rdf[neuron], high_tail) THEN name
    ELSE "Not-selective"
\* lines 161-166
two_tailed_neuron_classification(rdf, obs, neuron, name, high_tail, low_tail) ==
    IF 100 * obs[neuron] >= Percentile100(rdf[neuron], high_tail) THEN name
    ELSE IF 100 * obs[neuron] <= Percentile100(rdf[neuron], low_tail) THEN "Non-" \o name
    ELSE "Not-selective"

\* ------------------------------------------------------------- the classifiers
ClassifyInit ==
    /\ strategy \in {"nonparametric", "parametric"}
    /\ dataframe \in [NeuronSet -> ActivityColumns]
    /\ \E n \in 0..MaxNullRows : resampled_df \in [NeuronSet -> [1..n -> NullVals]]
    /\ real_diff_df \in [NeuronSet -> NullVals]
    /\ p_value \in IF strategy = "nonparametric" THEN Alphas ELSE {<<1, 20>>}
    /\ tails \in IF strategy = "parametric" THEN Tails ELSE {<<100, 0>>}
    /\ threshold \in Thresholds
    /\ cpc = "gate"
    /\ gi = 0
    /\ si = 0
    /\ classified_neurons = <<>>
    /\ pvals = <<>>
    /\ evaluated = {}
    /\ error = "none"

Put(dict, key, value) == IF key \in DOMAIN dict THEN dict ELSE dict @@ (key :> value)

\* lines 122-125 and 188-191: one pass of the event-count loop
GateStep ==
    /\ cpc = "gate"
    /\ gi < Len(Neurons)
    /\ LET neuron == Neurons[gi + 1]
       IN classified_neurons' =
            IF BelowThreshold(dataframe, neuron, threshold)
            THEN Put(classified_neurons, neuron, "unclassified")
            ELSE classified_neurons
    /\ gi' = gi + 1
    /\ cpc' = IF gi + 1 = Len(Neurons) THEN "stat" ELSE "gate"
    /\ UNCHANGED <<strategy, dataframe, resampled_df, real_diff_df, p_value, tails,
                   threshold, si, pvals, evaluated, error>>

\* lines 127-133: one pass of the p-value loop; the p-value is computed in the
\* condition of the if, before the dict is looked at.
NonParametricStep ==
    /\ cpc = "stat"
    /\ strategy = "nonparametric"
    /\ si < Len(Neurons)
    /\ LET neuron == Neurons[si + 1]
           r == compute_two_side_p_val(resampled_df, real_diff_df, neuron)
       IN /\ evaluated' = evaluated \cup {neuron}
          /\ IF r.err # "none"
             THEN /\ error' = r.err
                  /\ cpc' = "raised"
                  /\ UNCHANGED <<si, pvals, classified_neurons>>
             ELSE /\ pvals' = pvals @@ (neuron :> r.val)
                  /\ classified_neurons' =
                       Put(classified_neurons, neuron, NonParametricLabel(r.val, p_value))
                  /\ si' = si + 1
                  /\ cpc' = IF si + 1 = Len(Neurons) THEN "returned" ELSE "stat"
                  /\ UNCHANGED error
    /\ UNCHANGED <<strategy, dataframe, resampled_df, real_diff_df, p_value, tails,
                   threshold, gi>>

\* lines 193-195, neuron already in the dict: nothing is evaluated
ParametricSkip ==
    /\ cpc = "stat"
    /\ strategy = "parametric"
    /\ si < Len(Neurons)
    /\ Neurons[si + 1] \in DOMAIN classified_neurons
    /\ si' = si + 1
    /\ cpc' = IF si + 1 = Len(Neurons) THEN "returned" ELSE "stat"
    /\ UNCHANGED <<strategy, dataframe, resampled_df, real_diff_df, p_value, tails,
                   threshold, gi, classified_neurons, pvals, evaluated, error>>

\* lines 193-195, neuron not yet in the dict, null column not empty
ParametricStep ==
    /\ cpc = "stat"
    /\ strategy = "parametric"
    /\ si < Len(Neurons)
    /\ Neurons[si + 1] \notin DOMAIN classified_neurons
    /\ Len(resampled_df[Neurons[si + 1]]) > 0
    /\ LET neuron == Neurons[si + 1]
       IN /\ evaluated' = evaluated \cup {neuron}
          /\ classified_neurons' =
               classified_neurons @@
                 (neuron :> two_tailed_neuron_classification(
                               resampled_df, real_diff_df, neuron, behavior_name,
                               tails[1], tails[2]))
    /\ si' = si + 1
    /\ cpc' = IF si + 1 = Len(Neurons) THEN "returned" ELSE "stat"
    /\ UNCHANGED <<strategy, dataframe, resampled_df, real_diff_df, p_value, tails,
                   threshold, gi, pvals, error>>

\* lines 161-166 on an empty null column: np.percentile of an empty array
\* raises IndexError or yields nan, depending on the numpy release; against nan
\* both comparisons are false and the else branch is taken.
ParametricStepEmpty ==
    /\ cpc = "stat"
    /\ strategy = "parametric"
    /\ si < Len(Neurons)
    /\ Neurons[si + 1] \notin DOMAIN classified_neurons
    /\ Len(resampled_df[Neurons[si + 1]]) = 0
    /\ evaluated' = evaluated \cup {Neurons[si + 1]}
    /\ \/ /\ error' = "IndexError"
          /\ cpc' = "raised"
          /\ UNCHANGED <<si, classified_neurons>>
       \/ /\ classified_neurons' = classified_neurons @@ (Neurons[si + 1] :> "Not-selective")
          /\ si' = si + 1
          /\ cpc' = IF si + 1 = Len(Neurons) THEN "returned" ELSE "stat"
          /\ UNCHANGED error
    /\ UNCHANGED <<strategy, dataframe, resampled_df, real_diff_df, p_value, tails,
                   threshold, gi, pvals>>

ClassifyNext ==
    \/ GateStep /\ UNCHANGED shuffleVars
    \/ NonParametricStep /\ UNCHANGED shuffleVars
    \/ ParametricSkip /\ UNCHANGED shuffleVars
    \/ ParametricStep /\ UNCHANGED shuffleVars
    \/ ParametricStepEmpty /\ UNCHANGED shuffleVars

\* a classifier is called; shuffle() does not run
ClassifyStart == ClassifyInit /\ ShuffleIdle

ClassifySpec == ClassifyStart /\ [][ClassifyNext]_vars

\* ------------------------------------------------------------- properties
EventCount(n) == Cardinality({k \in 1..Len(dataframe[n]) : dataframe[n][k] # 0})
Filtered(n) == EventCount(n) < threshold
AtLeastAsExtreme(n) ==
    Cardinality({k \in 1..Len(resampled_df[n]) :
                   Abs(resampled_df[n][k]) >= Abs(real_diff_df[n])})
HasPut(i) == workers[i].pc \in {"put", "exited"}

C2_CollectAllThenJoin ==
    /\ Len(q) + Len(rets) = Cardinality({i \in 1..cpu_count : HasPut(i)})
    /\ (orch \in {"join", "done"} \/ njoined > 0) => Len(rets) = cpu_count
    /\ orch = "done" =>
         /\ Len(rets) = cpu_count
         /\ q = <<>>
         /\ njoined = cpu_count
         /\ \A i \in 1..cpu_count : workers[i].pc = "exited"
         /\ returned = Flatten(rets)
         /\ \E f \in Permutations(1..cpu_count) :
              \A k \in 1..cpu_count : rets[k] = workers[f[k]].shuffled_df

\* shuffle() has returned with two workers whose results arrived in the
\* opposite order of their start
C2_Witness ==
    /\ orch = "done"
    /\ cpu_count = 2
    /\ rets[1] = workers[2].shuffled_df
    /\ rets[1] # workers[1].shuffled_df

\* C3: the value compute_two_side_p_val returned for a neuron is the number of
\* null values v with |v| >= |observed| over the row count of the null table,
\* and it returns one for every neuron it is called on with a non-empty table.
C3_TwoSidedPValue ==
    /\ \A n \in DOMAIN pvals :
         /\ Len(resampled_df[n]) >= 1
         /\ pvals[n] = <<AtLeastAsExtreme(n), Len(resampled_df[n])>>
    /\ \A n \in evaluated :
         (strategy = "nonparametric" /\ Len(resampled_df[n]) >= 1) => n \in DOMAIN pvals

\* a p-value of 1/2 that counts a tie of opposite sign: |-1| >= |1|
C3_Witness ==
    \E n \in DOMAIN pvals :
        /\ real_diff_df[n] = 1
        /\ resampled_df[n] = <<-1, 0>>
        /\ pvals[n] = <<1, 2>>

\* C4: in the map classify_neurons_non_parametrically returns, every neuron
\* that passed the event-count gate is selective or not-selective, and it is
\* selective exactly when its p-value is <= alpha.
C4_NonParametricLabels ==
    (strategy = "nonparametric" /\ cpc = "returned") =>
        \A n \in NeuronSet :
            ~Filtered(n) =>
                /\ n \in DOMAIN classified_neurons
                /\ classified_neurons[n] \in {"selective", "not-selective"}
                /\ classified_neurons[n] = "selective" <=>
                     AtLeastAsExtreme(n) * p_value[2] <= p_value[1] * Len(resampled_df[n])

\* a returned map with an unfiltered neuron whose p-value equals alpha = 1/2
\* and is selective, and one with a larger p-value that is not-selective
C4_Witness ==
    /\ strategy = "nonparametric"
    /\ cpc = "returned"
    /\ p_value = <<1, 2>>
    /\ ~Filtered("A") /\ pvals["A"] = <<1, 2>> /\ classified_neurons["A"] = "selective"
    /\ ~Filtered("B") /\ pvals["B"] = <<2, 2>> /\ classified_neurons["B"] = "not-selective"

C6_GatePrecedence ==
    /\ \A n \in DOMAIN classified_neurons :
         classified_neurons[n] = "unclassified" => Filtered(n)
    /\ cpc \in {"stat", "raised", "returned"} =>
         \A n \in NeuronSet :
             Filtered(n) =>
                 n \in DOMAIN classified_neurons /\ classified_neurons[n] = "unclassified"

\* a returned map where a filtered neuron has a p-value of 0 (<= alpha) and is
\* unclassified all the same, next to a neuron with exactly threshold events
C6_Witness ==
    /\ strategy = "nonparametric"
    /\ cpc = "returned"
    /\ Filtered("A")
    /\ pvals["A"] = <<0, 2>>
    /\ classified_neurons["A"] = "unclassified"
    /\ EventCount("B") = threshold
    /\ classified_neurons["B"] # "unclassified"

\* C7: once the non-parametric classifier has called compute_two_side_p_val on
\* a null table with no rows, it has left with ZeroDivisionError: no p-value
\* was returned and no map is returned.
C7_EmptyNullTableRaises ==
    \A n \in evaluated :
        (strategy = "nonparametric" /\ Len(resampled_df[n]) = 0) =>
            /\ cpc = "raised"
            /\ error = "ZeroDivisionError"
            /\ n \notin DOMAIN pvals

\* the p-value of an unfiltered neuron was asked for on an empty null table
C7_Witness ==
    /\ strategy = "nonparametric"
    /\ cpc = "raised"
    /\ error = "ZeroDivisionError"
    /\ \E n \in evaluated : ~Filtered(n) /\ Len(resampled_df[n]) = 0

\* C8: whenever a worker is about to run a resample iteration, the table it
\* permutes is the original one: activity block and behavior columns.
C8_FreshCopyEachIteration ==
    \A i \in 1..cpu_count :
        (workers[i].pc = "loop" /\ workers[i].index < experiments_per_worker) =>
            workers[i].table = OriginalTable

\* C9: no two started workers of one shuffle() call begin from the same
\* generator state.
C9_WorkersSeededApart ==
    \A i, j \in 1..nstarted :
        i # j => workers[i].seed0 # workers[j].seed0

\* C10: a neuron the gate labeled unclassified never has its statistic
\* evaluated, so no classifier run ends in an error raised for such a neuron.
C10_FilteredNeverEvaluated ==
    \A n \in DOMAIN classified_neurons :
        classified_neurons[n] = "unclassified" => n \notin evaluated

====
